---- MODULE Spec2Model ----
(***************************************************************************)
(* Model of solution.py: the label validator is_valid_label, the           *)
(* expression parser parse_role and the evaluator add_virtual_column.      *)
(*                                                                         *)
(* A Python str is a sequence of one-character strings.  A DataFrame is a  *)
(* record [nrows, cols] whose cols is the sequence of its columns in       *)
(* column order, each [name, data]; column labels may repeat, as pandas    *)
(* allows.  A cell is a tagged tuple: <<"int", n>> is an int64, <<"str",   *)
(* s>> a Python str held in an object column, <<"float", f>> a float64     *)
(* with f one of <<"fin", num, den>>, <<"inf", 0, 0>>, <<"ninf", 0, 0>>,   *)
(* <<"nan", 0, 0>>.  A finite float64 is kept as the exact fraction (its   *)
(* rounding is not modelled); int64 is modelled with IntBits bits.  The    *)
(* semantics of the DataFrame operations are those of pandas 1.x and 2.x   *)
(* with int64 and object columns.                                          *)
(***************************************************************************)
EXTENDS Integers, Sequences, FiniteSets, TLC

VARIABLES
    df,          \* the caller's table, passed as df
    role,        \* the expression passed as role
    new_column,  \* the name passed as new_column
    outcome,     \* "none" before the call, then "returned" or "raised"
    result,      \* the DataFrame add_virtual_column returned
    log,         \* the logger.warning calls of the call, in order: <<message, argument>>
    text,        \* the str passed to is_valid_label or parse_role
    valid,       \* what is_valid_label returned
    parsed,      \* what parse_role returned
    pc           \* "start", then the function that was called

vars == <<df, role, new_column, outcome, result, log, text, valid, parsed, pc>>

(***************************************************************************)
(* Bounds of the model.                                                    *)
(***************************************************************************)
MaxTextLen == 5   \* longest str given to is_valid_label and parse_role
MaxRows == 2      \* most rows of an input table
MaxCols == 2      \* most columns of an input table
IntBits == 2      \* width of the model's int64 (stands for 64)

(***************************************************************************)
(* Characters.                                                             *)
(***************************************************************************)
UpperCase == {"A", "B", "C", "D", "E", "F", "G", "H", "I", "J", "K", "L", "M",
              "N", "O", "P", "Q", "R", "S", "T", "U", "V", "W", "X", "Y", "Z"}

LowerCase == {"a", "b", "c", "d", "e", "f", "g", "h", "i", "j", "k", "l", "m",
              "n", "o", "p", "q", "r", "s", "t", "u", "v", "w", "x", "y", "z"}

\* [A-Za-z_]
IsLabelChar(c) == c \in UpperCase \cup LowerCase \cup {"_"}

\* \s (the ASCII whitespace TLA+ can write)
IsSpaceChar(c) == c \in {" ", "\t", "\n", "\r", "\f"}

\* [+\-*/]
IsOperatorChar(c) == c \in {"+", "-", "*", "/"}

\* $ without re.MULTILINE: at the end, or just before a newline that ends the string
DollarAt(s, p) == \/ p = Len(s)
                  \/ p = Len(s) - 1 /\ s[Len(s)] = "\n"

\* the positions where ^[A-Za-z_]+$ can stop when matched from the start of s
LabelMatchEnds(s) ==
    {e \in 1..Len(s) : (\A i \in 1..e : IsLabelChar(s[i])) /\ DollarAt(s, e)}

\* bool(LABEL_REGEX.match(label)): some match from the start, wherever it stops
is_valid_label_match(label) == LabelMatchEnds(label) # {}

\* bool(LABEL_REGEX.fullmatch(label)): a match that stops at the end of label
is_valid_label(label) == Len(label) \in LabelMatchEnds(label)

(***************************************************************************)
(* parse_role.  The three character classes of the pattern are pairwise    *)
(* disjoint, so the greedy scan is the only way the pattern can match.     *)
(***************************************************************************)
RECURSIVE SkipSpace(_, _)
\* \s* from offset p: the offset after the longest run of whitespace
SkipSpace(s, p) ==
    IF p < Len(s) /\ IsSpaceChar(s[p + 1]) THEN SkipSpace(s, p + 1) ELSE p

RECURSIVE SkipLabel(_, _)
\* [A-Za-z_]* from offset p
SkipLabel(s, p) ==
    IF p < Len(s) /\ IsLabelChar(s[p + 1]) THEN SkipLabel(s, p + 1) ELSE p

RECURSIVE SkipWord(_, _)
\* [A-Za-z_0-9]* from offset p
SkipWord(s, p) ==
    IF p < Len(s) /\ (IsLabelChar(s[p + 1]) \/ s[p + 1] \in {"0", "1", "2", "3", "4", "5", "6", "7", "8", "9"})
    THEN SkipWord(s, p + 1) ELSE p

RECURSIVE SkipOperators(_, _)
\* [+\-*/]* from offset p
SkipOperators(s, p) ==
    IF p < Len(s) /\ IsOperatorChar(s[p + 1]) THEN SkipOperators(s, p + 1) ELSE p

\* [+\-*/] from offset p: one character, or no match (the offset stays)
OneOperator(s, p) == IF p < Len(s) /\ IsOperatorChar(s[p + 1]) THEN p + 1 ELSE p

\* None, which parse_role returns when the pattern does not match
NoMatch == <<>>

\* pattern.fullmatch(expression) and match.groups() for a scan that found
\* the operands at offsets p1..p2 and p5..p6, the operator at p3..p4 and
\* the trailing whitespace up to p7
Groups(expression, p1, p2, p3, p4, p5, p6, p7) ==
    IF /\ p2 > p1
       /\ p4 > p3
       /\ p6 > p5
       /\ DollarAt(expression, p7)
       /\ p7 = Len(expression)
    THEN <<SubSeq(expression, p1 + 1, p2),
           SubSeq(expression, p3 + 1, p4),
           SubSeq(expression, p5 + 1, p6)>>
    ELSE NoMatch

\* parse_role with the operands matched by [A-Za-z_0-9]+
parse_role_word(expression) ==
    LET p1 == SkipSpace(expression, 0)
        p2 == SkipWord(expression, p1)
        p3 == SkipSpace(expression, p2)
        p4 == OneOperator(expression, p3)
        p5 == SkipSpace(expression, p4)
        p6 == SkipWord(expression, p5)
        p7 == SkipSpace(expression, p6)
    IN  Groups(expression, p1, p2, p3, p4, p5, p6, p7)

\* parse_role with the operator matched by [+\-*/]+
parse_role_operators(expression) ==
    LET p1 == SkipSpace(expression, 0)
        p2 == SkipLabel(expression, p1)
        p3 == SkipSpace(expression, p2)
        p4 == SkipOperators(expression, p3)
        p5 == SkipSpace(expression, p4)
        p6 == SkipLabel(expression, p5)
        p7 == SkipSpace(expression, p6)
    IN  Groups(expression, p1, p2, p3, p4, p5, p6, p7)

\* ^\s*([A-Za-z_]+)\s*([+\-*/])\s*([A-Za-z_]+)\s*$ scanned from the left
parse_role(expression) ==
    LET p1 == SkipSpace(expression, 0)
        p2 == SkipLabel(expression, p1)
        p3 == SkipSpace(expression, p2)
        p4 == OneOperator(expression, p3)
        p5 == SkipSpace(expression, p4)
        p6 == SkipLabel(expression, p5)
        p7 == SkipSpace(expression, p6)
    IN  Groups(expression, p1, p2, p3, p4, p5, p6, p7)

(***************************************************************************)
(* Cells and the elementwise operators of pandas.                          *)
(***************************************************************************)
Modulus == 2 ^ IntBits
MinInt == -(2 ^ (IntBits - 1))
MaxInt == (2 ^ (IntBits - 1)) - 1

\* int64 arithmetic keeps the low IntBits bits (two's complement)
Wrap(n) == ((n - MinInt) % Modulus) + MinInt

Abs(n) == IF n < 0 THEN -n ELSE n

RECURSIVE GCD(_, _)
GCD(a, b) == IF b = 0 THEN a ELSE GCD(b, a % b)

\* int64 / int64 is float64 true division; a zero divisor gives inf, -inf or nan
TrueDiv(a, b) ==
    IF b = 0
    THEN IF a > 0 THEN <<"inf", 0, 0>>
         ELSE IF a < 0 THEN <<"ninf", 0, 0>> ELSE <<"nan", 0, 0>>
    ELSE LET g == GCD(Abs(a), Abs(b))
             sgn == IF b < 0 THEN -1 ELSE 1
         IN  <<"fin", (sgn * a) \div g, (sgn * b) \div g>>

\* a // b in place of a / b
FloorDiv(a, b) ==
    IF b = 0
    THEN TrueDiv(a, b)
    ELSE LET sgn == IF b < 0 THEN -1 ELSE 1
         IN  <<"fin", (sgn * a) \div (sgn * b), 1>>

RECURSIVE Repeat(_, _)
\* str * int: n copies of s, none when n <= 0
Repeat(s, n) == IF n <= 0 THEN <<>> ELSE s \o Repeat(s, n - 1)

\* the cell an elementwise operation yields when Python raises on the pair
RaisedCell == <<"raise">>

\* the four lambdas on two int64 cells, with '/' made floor division
IntOpFloor(op, a, b) ==
    CASE op = <<"+">> -> <<"int", Wrap(a + b)>>
      [] op = <<"-">> -> <<"int", Wrap(a - b)>>
      [] op = <<"*">> -> <<"int", Wrap(a * b)>>
      [] op = <<"/">> -> <<"float", FloorDiv(a, b)>>

\* the four lambdas on two int64 cells
IntOp(op, a, b) ==
    CASE op = <<"+">> -> <<"int", Wrap(a + b)>>
      [] op = <<"-">> -> <<"int", Wrap(a - b)>>
      [] op = <<"*">> -> <<"int", Wrap(a * b)>>
      [] op = <<"/">> -> <<"float", TrueDiv(a, b)>>

\* op applied to one pair of cells; str cells follow Python's operators on
\* str (object columns), every other pairing of str raises TypeError
ElementOp(op, x, y) ==
    CASE x[1] = "int" /\ y[1] = "int" -> IntOp(op, x[2], y[2])
      [] x[1] = "str" /\ y[1] = "str" ->
            IF op = <<"+">> THEN <<"str", x[2] \o y[2]>> ELSE RaisedCell
      [] x[1] = "int" /\ y[1] = "str" ->
            IF op = <<"*">> THEN <<"str", Repeat(y[2], x[2])>> ELSE RaisedCell
      [] x[1] = "str" /\ y[1] = "int" ->
            IF op = <<"*">> THEN <<"str", Repeat(x[2], y[2])>> ELSE RaisedCell
      [] OTHER -> RaisedCell

\* what a calculation gives: an exception, or the columns of its value (one
\* column is a Series, two or more are a DataFrame)
Raises == [raised |-> TRUE, columns |-> <<>>]
Value(columns) == [raised |-> FALSE, columns |-> columns]

\* Series op Series over the same index: cell by cell, in row order
SeriesOp(op, a, b) ==
    IF \E i \in DOMAIN a : ElementOp(op, a[i], b[i]) = RaisedCell
    THEN Raises
    ELSE Value(<<[i \in DOMAIN a |-> ElementOp(op, a[i], b[i])]>>)

(***************************************************************************)
(* DataFrames.                                                             *)
(***************************************************************************)
\* pd.DataFrame([]): no columns, no rows
EmptyFrame == [nrows |-> 0, cols |-> <<>>]

\* df.columns, as the set of labels
Columns(frame) == {frame.cols[j].name : j \in DOMAIN frame.cols}

\* the positions of the columns labelled key
Locs(frame, key) == {j \in DOMAIN frame.cols : frame.cols[j].name = key}

\* how many of the columns up to position j are labelled key
Rank(frame, key, j) == Cardinality({i \in Locs(frame, key) : i <= j})

\* df[key]: the data of every column labelled key, in column order
GetItem(frame, key) ==
    LET locs == Locs(frame, key)
        nth(k) == CHOOSE j \in locs : Rank(frame, key, j) = k
    IN  [k \in 1..Cardinality(locs) |-> frame.cols[nth(k)].data]

NaNCell == <<"float", <<"nan", 0, 0>>>>

\* DataFrame op DataFrame over the same labels: column by column
FrameOp(op, left, right) ==
    IF \E k \in DOMAIN left : SeriesOp(op, left[k], right[k]).raised
    THEN Raises
    ELSE Value([k \in DOMAIN left |-> SeriesOp(op, left[k], right[k]).columns[1]])

\* func(df[left_col], df[right_col]): the results the operation can have.
\* When one operand is a DataFrame (its label repeats) and the other has
\* other labels, pandas aligns them on the union of the labels, where no
\* cell has a partner; whether that alignment raises on the repeated labels
\* depends on the pandas version, so both results are possible.  The
\* aligned value has one all-NaN column per label of the union: a
\* DataFrame brings its columns, a Series its row labels.
Calculation(frame, left_col, op, right_col) ==
    LET left == GetItem(frame, left_col)
        right == GetItem(frame, right_col)
        width(v) == IF Len(v) = 1 THEN frame.nrows ELSE Len(v)
    IN  IF Len(left) = 1 /\ Len(right) = 1
        THEN {SeriesOp(op, left[1], right[1])}
        ELSE IF left_col = right_col
        THEN {FrameOp(op, left, right)}
        ELSE {Raises,
              Value([k \in 1..(width(left) + width(right)) |->
                        [i \in 1..frame.nrows |-> NaNCell]])}

\* the outcome of frame[key] = value; raised is the ValueError of pandas
SetItemRaises == [raised |-> TRUE, frame |-> EmptyFrame]

\* frame[key] = value that adds a column even when the label exists
SetItemAlwaysAppend(frame, key, value) ==
    IF Len(value) = 1
    THEN [raised |-> FALSE,
          frame |-> [frame EXCEPT
              !.cols = Append(@, [name |-> key, data |-> value[1]])]]
    ELSE SetItemRaises

\* frame[key] = value on a fresh copy of frame: a Series is appended under
\* a new label and written over every column of an existing label; a
\* DataFrame is written over as many columns of the label, else ValueError
SetItem(frame, key, value) ==
    LET locs == Locs(frame, key)
    IN  IF Len(value) = 1
        THEN IF locs = {}
             THEN [raised |-> FALSE,
                   frame |-> [frame EXCEPT
                       !.cols = Append(@, [name |-> key, data |-> value[1]])]]
             ELSE [raised |-> FALSE,
                   frame |-> [frame EXCEPT
                       !.cols = [j \in DOMAIN @ |->
                           IF j \in locs THEN [@[j] EXCEPT !.data = value[1]]
                           ELSE @[j]]]]
        ELSE IF locs # {} /\ Cardinality(locs) = Len(value)
        THEN [raised |-> FALSE,
              frame |-> [frame EXCEPT
                  !.cols = [j \in DOMAIN @ |->
                      IF j \in locs
                      THEN [@[j] EXCEPT !.data = value[Rank(frame, key, j)]]
                      ELSE @[j]]]]
        ELSE SetItemRaises

(***************************************************************************)
(* add_virtual_column.                                                     *)
(***************************************************************************)
\* the keys of the operations dictionary
Operations == {<<"+">>, <<"-">>, <<"*">>, <<"/">>}

\* a rejection that returns the table it was given, not an empty one
RejectReturningInput(frame, message, argument) ==
    [outcome |-> "returned", result |-> frame,
     log |-> <<<<message, argument>>>>, input |-> frame]

\* logger.warning(message, argument) followed by return pd.DataFrame([])
Reject(frame, message, argument) ==
    [outcome |-> "returned", result |-> EmptyFrame,
     log |-> <<<<message, argument>>>>, input |-> frame]

\* df_copy[new_column] = result without df.copy(): the caller's table is written
AssignInPlace(frame, key, value) ==
    LET set == SetItem(frame, key, value)
    IN  IF set.raised
        THEN [outcome |-> "raised", result |-> EmptyFrame, log |-> <<>>, input |-> frame]
        ELSE [outcome |-> "returned", result |-> set.frame, log |-> <<>>,
              input |-> set.frame]

\* df_copy = df.copy(); df_copy[new_column] = result; return df_copy.
\* The assignment is outside the try block: its ValueError leaves the call.
CopyAndAssign(frame, key, value) ==
    LET set == SetItem(frame, key, value)
    IN  IF set.raised
        THEN [outcome |-> "raised", result |-> EmptyFrame, log |-> <<>>, input |-> frame]
        ELSE [outcome |-> "returned", result |-> set.frame, log |-> <<>>,
              input |-> frame]

\* the try block and what follows it, for one result of the calculation
Finish(frame, key, operation, calc) ==
    IF calc.raised
    THEN Reject(frame, "Error during calculation", operation)
    ELSE CopyAndAssign(frame, key, calc.columns)

\* the loop run over (right_col, left_col)
OperandWarningRightFirst(frame, left_col, right_col) ==
    IF ~is_valid_label(right_col) THEN <<"Invalid operand label", right_col>>
    ELSE IF right_col \notin Columns(frame)
    THEN <<"Column not found in DataFrame", right_col>>
    ELSE IF ~is_valid_label(left_col) THEN <<"Invalid operand label", left_col>>
    ELSE IF left_col \notin Columns(frame)
    THEN <<"Column not found in DataFrame", left_col>>
    ELSE <<>>

\* the loop over (left_col, right_col): the warning of the first operand
\* that fails a check, or <<>> when both pass
OperandWarning(frame, left_col, right_col) ==
    IF ~is_valid_label(left_col) THEN <<"Invalid operand label", left_col>>
    ELSE IF left_col \notin Columns(frame)
    THEN <<"Column not found in DataFrame", left_col>>
    ELSE IF ~is_valid_label(right_col) THEN <<"Invalid operand label", right_col>>
    ELSE IF right_col \notin Columns(frame)
    THEN <<"Column not found in DataFrame", right_col>>
    ELSE <<>>

\* the outcomes a call add_virtual_column(frame, expression, key) can have
add_virtual_column(frame, expression, key) ==
    IF ~is_valid_label(key)
    THEN {Reject(frame, "Invalid new column name", key)}
    ELSE LET match == parse_role(expression)
             left_col == match[1]
             op == match[2]
             right_col == match[3]
             warning == OperandWarning(frame, left_col, right_col)
         IN  IF match = NoMatch
             THEN {Reject(frame, "Invalid expression format", expression)}
             ELSE IF warning # <<>>
             THEN {Reject(frame, warning[1], warning[2])}
             ELSE IF op \notin Operations
             THEN {Reject(frame, "Unsupported operator", op)}
             ELSE {Finish(frame, key, match, calc) :
                       calc \in Calculation(frame, left_col, op, right_col)}

(***************************************************************************)
(* The inputs the model draws.                                             *)
(***************************************************************************)
\* the characters of the strings given to is_valid_label and parse_role
TextChars == {"a", "Z", "_", "3", " ", "\n", "+", "*"}

Texts == UNION {[1..n -> TextChars] : n \in 0..MaxTextLen}

\* the column labels of the input tables
ColNames == {<<"a">>, <<"b">>}

\* the values of the int64 cells: the least int64, zero and one
IntValues == <<MinInt, 0, 1>>

\* an int64 column of n rows: one value in every row (step 0), or the
\* values in turn from position start (step 1)
IntColumn(n, start, step) ==
    [i \in 1..n |->
        <<"int", IntValues[((start + (i - 1) * step) % Len(IntValues)) + 1]>>]

\* a column of n rows holds int64 cells, or the str 'x' in every row
ColumnData(n) ==
    {IntColumn(n, start, step) :
         start \in 0..(Len(IntValues) - 1), step \in {0, 1}}
    \cup {[i \in 1..n |-> <<"str", <<"x">>>>]}

Frames ==
    UNION {{[nrows |-> n, cols |-> c] :
                c \in [1..k -> [name : ColNames, data : ColumnData(n)]]} :
           n \in 0..MaxRows, k \in 0..MaxCols}

\* the expressions: operand, space, operator, space, operand, over the
\* labels and the operators with **, and two with a digit for an operand
RoleOperands == {<<"a">>, <<"b">>}
RoleOperators == {<<"+">>, <<"-">>, <<"*">>, <<"/">>, <<"*", "*">>}
Roles ==
    {l \o <<" ">> \o o \o <<" ">> \o r :
         l \in RoleOperands, o \in RoleOperators, r \in RoleOperands}
    \cup {<<"3", " ", "+", " ", "b">>, <<"a", " ", "+", " ", "3">>}

\* the names for the new column
NewNames == {<<"c">>, <<"a">>, <<"c", "1">>}

(***************************************************************************)
(* The evaluator called once on a table of the caller.                     *)
(***************************************************************************)
Init ==
    /\ df \in Frames
    /\ role = <<>>
    /\ new_column = <<>>
    /\ outcome = "none"
    /\ result = EmptyFrame
    /\ log = <<>>
    /\ text = <<>>
    /\ valid = FALSE
    /\ parsed = NoMatch
    /\ pc = "start"

AddVirtualColumn ==
    /\ pc = "start"
    /\ \E expression \in Roles, key \in NewNames :
          \E call \in add_virtual_column(df, expression, key) :
             /\ role' = expression
             /\ new_column' = key
             /\ outcome' = call.outcome
             /\ result' = call.result
             /\ log' = call.log
             /\ df' = call.input
    /\ pc' = "add_virtual_column"
    /\ UNCHANGED <<text, valid, parsed>>

Next == AddVirtualColumn

Spec == Init /\ [][Next]_vars

(***************************************************************************)
(* The two pure functions applied to a string.                             *)
(***************************************************************************)
InitText ==
    /\ text \in Texts
    /\ df = EmptyFrame
    /\ role = <<>>
    /\ new_column = <<>>
    /\ outcome = "none"
    /\ result = EmptyFrame
    /\ log = <<>>
    /\ valid = FALSE
    /\ parsed = NoMatch
    /\ pc = "start"

IsValidLabel ==
    /\ pc = "start"
    /\ valid' = is_valid_label(text)
    /\ pc' = "is_valid_label"
    /\ UNCHANGED <<df, role, new_column, outcome, result, log, text, parsed>>

ParseRole ==
    /\ pc = "start"
    /\ parsed' = parse_role(text)
    /\ pc' = "parse_role"
    /\ UNCHANGED <<df, role, new_column, outcome, result, log, text, valid>>

NextText == IsValidLabel \/ ParseRole

SpecText == InitText /\ [][NextText]_vars

(***************************************************************************)
(* The documented grammar, stated without the scanner: what a label is,    *)
(* and an expression split at an operator character and stripped.          *)
(***************************************************************************)
\* non-empty, letters and underscores only
IsLabelText(s) == s # <<>> /\ \A i \in DOMAIN s : IsLabelChar(s[i])

\* s without its leading and trailing whitespace
Strip(s) ==
    LET kept == {i \in DOMAIN s : ~IsSpaceChar(s[i])}
        first == CHOOSE i \in kept : \A j \in kept : i <= j
        last == CHOOSE i \in kept : \A j \in kept : j <= i
    IN  IF kept = {} THEN <<>> ELSE SubSeq(s, first, last)

\* the triples <<label, operator, label>> that s spells
Triples(s) ==
    {<<Strip(SubSeq(s, 1, k - 1)), <<s[k]>>, Strip(SubSeq(s, k + 1, Len(s)))>> :
        k \in {i \in DOMAIN s : /\ IsOperatorChar(s[i])
                                /\ IsLabelText(Strip(SubSeq(s, 1, i - 1)))
                                /\ IsLabelText(Strip(SubSeq(s, i + 1, Len(s))))}}

Triple(s) == CHOOSE t \in Triples(s) : TRUE

\* the state after a call of add_virtual_column
Called == pc = "add_virtual_column"

\* the call returned a table and no gate rejected it
Succeeded == Called /\ outcome = "returned" /\ log = <<>>

\* the call was rejected with exactly this warning
RejectedWith(message, argument) ==
    /\ outcome = "returned"
    /\ result = EmptyFrame
    /\ log = <<<<message, argument>>>>

\* the data of the one column of frame labelled key
Only(frame, key) == frame.cols[CHOOSE j \in Locs(frame, key) : TRUE].data

\* both operands of the expression name exactly one column, of int64 cells
IntOperands ==
    LET ts == Triples(role)
        t == CHOOSE x \in ts : TRUE
    IN  /\ ts # {}
        /\ \A key \in {t[1], t[3]} :
              /\ Cardinality(Locs(df, key)) = 1
              /\ \A i \in DOMAIN Only(df, key) : Only(df, key)[i][1] = "int"

\* v is exactly a op b: the sum, difference or product as an integer, the
\* quotient as the real number v with v * b = a
ExactValue(op, a, b, v) ==
    CASE op = <<"+">> -> v = <<"int", a + b>>
      [] op = <<"-">> -> v = <<"int", a - b>>
      [] op = <<"*">> -> v = <<"int", a * b>>
      [] op = <<"/">> -> /\ v[1] = "float"
                         /\ v[2][1] = "fin"
                         /\ v[2][3] > 0
                         /\ v[2][2] * b = a * v[2][3]

\* v is a op b as int64 and float64 compute it: sum, difference and product
\* modulo 2^IntBits in the signed range; the real quotient for b # 0, and
\* inf, -inf or nan by the sign of a for b = 0
HostValue(op, a, b, v) ==
    IF op = <<"/">>
    THEN IF b # 0
         THEN ExactValue(op, a, b, v)
         ELSE v = <<"float", <<IF a > 0 THEN "inf" ELSE IF a < 0 THEN "ninf" ELSE "nan", 0, 0>>>>
    ELSE LET exact == CASE op = <<"+">> -> a + b
                        [] op = <<"-">> -> a - b
                        [] op = <<"*">> -> a * b
         IN  /\ v[1] = "int"
             /\ v[2] \in MinInt..MaxInt
             /\ (v[2] - exact) % Modulus = 0

\* every column of the result labelled new_column has one cell per row of
\* the input, which is the exact value or the host's value of the operands'
\* cells of that row
NewColumnIs(exact) ==
    LET t == Triple(role)
        L == Only(df, t[1])
        R == Only(df, t[3])
    IN  /\ Locs(result, new_column) # {}
        /\ \A j \in Locs(result, new_column) :
              /\ Len(result.cols[j].data) = df.nrows
              /\ \A i \in 1..df.nrows :
                    IF exact
                    THEN ExactValue(t[2], L[i][2], R[i][2], result.cols[j].data[i])
                    ELSE HostValue(t[2], L[i][2], R[i][2], result.cols[j].data[i])

ComputedColumn ==
    LET t == Triple(role)
    IN  SeriesOp(t[2], Only(df, t[1]), Only(df, t[3])).columns[1]

UniqueOperands ==
    LET ts == Triples(role)
        t == CHOOSE x \in ts : TRUE
    IN  /\ ts # {}
        /\ Cardinality(Locs(df, t[1])) = 1
        /\ Cardinality(Locs(df, t[3])) = 1

\* C2: a successful call returns the input's columns in the input's order
\* with their values, and the computed column under new_column: appended as
\* the last column when the name is new (one column more), written over the
\* column of that name when it exists (same column count).
C2_InputColumnsPlusNew ==
    Succeeded =>
        /\ result.nrows = df.nrows
        /\ IF new_column \notin Columns(df)
           THEN /\ Len(result.cols) = Len(df.cols) + 1
                /\ \A j \in DOMAIN df.cols : result.cols[j] = df.cols[j]
                /\ result.cols[Len(result.cols)].name = new_column
                /\ UniqueOperands =>
                      result.cols[Len(result.cols)].data = ComputedColumn
           ELSE /\ Len(result.cols) = Len(df.cols)
                /\ \A j \in DOMAIN df.cols :
                      /\ result.cols[j].name = df.cols[j].name
                      /\ df.cols[j].name # new_column =>
                            result.cols[j].data = df.cols[j].data
                      /\ (df.cols[j].name = new_column /\ UniqueOperands) =>
                            result.cols[j].data = ComputedColumn

\* new_column names the first of two input columns and its values change,
\* while the other column is kept
C2_Witness ==
    /\ Succeeded
    /\ Len(df.cols) = 2
    /\ df.cols[1].name = new_column
    /\ df.cols[2].name # new_column
    /\ result.cols[1].data # df.cols[1].data
    /\ df.nrows = 2

\* C3: the gates are checked in the order new name, expression, left
\* operand, right operand, evaluation; the first that fails rejects the call
\* with its own single warning and the failure table; a call no gate fails
\* logs nothing.
C3_FirstFailingGate ==
    LET ts == Triples(role)
        t == CHOOSE x \in ts : TRUE
    IN  Called =>
            IF ~IsLabelText(new_column)
            THEN RejectedWith("Invalid new column name", new_column)
            ELSE IF ts = {}
            THEN RejectedWith("Invalid expression format", role)
            ELSE IF t[1] \notin Columns(df)
            THEN RejectedWith("Column not found in DataFrame", t[1])
            ELSE IF t[3] \notin Columns(df)
            THEN RejectedWith("Column not found in DataFrame", t[3])
            ELSE \/ RejectedWith("Error during calculation", t)
                 \/ log = <<>>

\* neither operand is a column: the warning names the left one
C3_Witness ==
    /\ Called
    /\ IsLabelText(new_column)
    /\ Triples(role) # {}
    /\ Triple(role)[1] # Triple(role)[3]
    /\ Triple(role)[1] \notin Columns(df)
    /\ Triple(role)[3] \notin Columns(df)
    /\ log = <<<<"Column not found in DataFrame", Triple(role)[1]>>>>

\* C4 as claimed: no exception leaves add_virtual_column; every call
\* returns a table.
C4_NoExceptionEscapes == Called => outcome = "returned"

\* C5: a call leaves the caller's table as it was: same labels, same order,
\* same values.
C5_InputNeverMutated == [][df' = df]_vars

\* new_column names an input column, the returned table carries other
\* values under it than the input
C5_Witness ==
    /\ Succeeded
    /\ new_column \in Columns(df)
    /\ result # df
    /\ df.nrows = 2

\* C6: parse_role returns the triple of the stripped labels and the
\* operator exactly for the strings of the shape label, operator, label
\* with optional whitespace around each, and None for every other string.
C6_ParseRoleShape ==
    pc = "parse_role" =>
        /\ Cardinality(Triples(text)) <= 1
        /\ parsed = IF Triples(text) = {} THEN NoMatch ELSE Triple(text)

\* a string with whitespace before, between and after is parsed
C6_Witness ==
    /\ pc = "parse_role"
    /\ parsed = <<<<"a">>, <<"*">>, <<"Z">>>>
    /\ text = <<" ", "a", "*", "\n", "Z">>

\* C7: is_valid_label is true exactly for the non-empty strings of ASCII
\* letters and underscores.
C7_ValidLabelIffLettersOnly ==
    pc = "is_valid_label" => (valid <=> IsLabelText(text))

\* a label followed by a newline is refused
C7_Witness ==
    /\ pc = "is_valid_label"
    /\ text = <<"a", "_", "\n">>
    /\ ~valid

\* C8: a returned table is the failure table (no columns, no rows), or a
\* table of at least one column that holds every input column and the new
\* column, each with one cell per row; the failure table comes with a
\* warning and the other with none.
C8_FailureOrComplete ==
    (Called /\ outcome = "returned") =>
        \/ result = EmptyFrame /\ log # <<>>
        \/ /\ log = <<>>
           /\ Len(result.cols) >= 1
           /\ result.nrows = df.nrows
           /\ Columns(result) = Columns(df) \cup {new_column}
           /\ \A key \in Columns(df) :
                 Cardinality(Locs(result, key)) = Cardinality(Locs(df, key))
           /\ \A j \in DOMAIN result.cols :
                 Len(result.cols[j].data) = result.nrows

\* success on a table of no rows whose single column is both operands and
\* the new column
C8_Witness ==
    /\ Succeeded
    /\ df.nrows = 0
    /\ Len(df.cols) = 1
    /\ new_column = df.cols[1].name
    /\ Len(result.cols) = 1

\* the expressions of Roles written with the operator **
DoubleStar(s) == \E i \in 1..(Len(s) - 1) : s[i] = "*" /\ s[i + 1] = "*"

\* C10: what parse_role accepts has two valid labels and a supported
\* operator, so no call logs 'Invalid operand label' or 'Unsupported
\* operator', and an expression with ** is rejected as an invalid format.
C10_ParserImpliesValidator ==
    Called =>
        /\ \A i \in DOMAIN log :
              log[i][1] \notin {"Invalid operand label", "Unsupported operator"}
        /\ LET match == parse_role(role)
           IN  match # NoMatch =>
                  /\ is_valid_label(match[1])
                  /\ is_valid_label(match[3])
                  /\ match[2] \in Operations
        /\ (IsLabelText(new_column) /\ DoubleStar(role)) =>
              RejectedWith("Invalid expression format", role)

\* a call with a valid new name and the operator **
C10_Witness ==
    /\ Called
    /\ IsLabelText(new_column)
    /\ DoubleStar(role)
    /\ Columns(df) = {<<"a">>, <<"b">>}
    /\ log # <<>>

====
